---- MODULE Spec2Model ----
(***************************************************************************)
(* Offline-first synchronisation engine of the POS application             *)
(* (src/services/sync.ts, carried in src/src/types/api.types.ts lines      *)
(* 438-905), its callers on the Backup screens, and the stores it writes.  *)
(*                                                                         *)
(* One JavaScript event loop: every action below is one run-to-completion  *)
(* segment of a handler, from one await to the next.  A syncAll pass is a  *)
(* process slot whose position is pc[p]; several passes may be in flight   *)
(* because each trigger (timer, manual button) simply calls syncAll().     *)
(***************************************************************************)
EXTENDS Integers, Sequences, FiniteSets, TLC

\* ------------------------------------------------------------------ bounds
MaxOps == 2          \* queueOperation calls in one behaviour
MaxBills == 1        \* bills created in one behaviour
MaxClock == 1        \* millisecond clock readings 0..MaxClock
MaxPasses == 2       \* syncAll invocations that may be in flight together
MaxSyncs == 2        \* syncAll invocations in one behaviour
MaxTimers == 1       \* pending timers of queueOperation
MaxReconnects == 2   \* pending timers of the network listener
MaxFetching == 1     \* queueOperation calls awaiting the network status together
MaxAppends == 25     \* saveSyncToHistory calls in the history specification
MaxClockH == 2       \* clock readings 0..MaxClockH in the history specification
MaxRetries == 2      \* updateRetryCount calls on one operation
MaxSales == 51       \* bills saved between two syncs
MaxNumberCalls == 2  \* bill numbering calls that may be in flight together
MaxNumbered == 3     \* bill numbering calls that return in one behaviour
MaxDay == 1          \* calendar days 0..MaxDay

\* ------------------------------------------------------- program constants
HistoryLimit == 20   \* "Keep only last 20 entries"
BillLimit == 50      \* "... ORDER BY created_at ASC LIMIT 50"

OpTypes == {"create", "update", "delete"}
\* the operations the callers enqueue in this model
OpMenu == {<<"update", "category">>, <<"delete", "category">>, <<"create", "item">>}
EntityTypes == {"category", "item", "bill"}
RowKinds == {"category", "item"}
EntityIds == {5}
Passes == 1 .. MaxPasses
Undefined == "undefined"
NoTime == -1
NoError == "null"
NoResult == [success |-> FALSE, synced |-> -1]

VARIABLES
    net,             \* what NetInfo reports: isConnected ?? false
    isOnline,        \* sync.ts module flag kept by the network listener
    userData,        \* AsyncStorage USER_DATA_KEY present
    clock,           \* new Date(): the millisecond clock
    tieDesc,         \* how this SQLite build orders rows with equal ORDER BY keys
    sync_queue,      \* table sync_queue, row id = position
    bills,           \* table bills, is_synced of each row
    rowSynced,       \* categories / items: is_synced of the row of an entity id
    categories,      \* table categories: the rows initialSync wrote
    items,           \* table items: the rows initialSync wrote
    item_categories, \* table item_categories: the links of items to categories
    sync_history,    \* AsyncStorage 'sync_history' (parsed)
    last_sync_time,  \* AsyncStorage 'last_sync_time'
    appended,        \* every record handed to setItem('sync_history'), in order
    fetching,        \* queueOperation calls awaiting getNetworkStatus()
    queueCalls,      \* every queueOperation call: the row it inserted, how it ended
    enqTimers,       \* pending setTimeout(syncAll, 500) of queueOperation
    recTimers,       \* pending setTimeout(syncAll, 1000) of the listener
    calls,           \* syncAll invocations so far
    pc,              \* position of each syncAll pass
    trig,            \* who called the pass
    pendingAtCall,   \* the pending count the pass found when it was called
    initialNow,      \* initialSync: its local `now`
    sent,            \* per kind, the rows (ids, in batch order) the pass read and sent
    res,             \* per-kind reconciler results of the pass
    entry,           \* saveSyncToHistory: newEntry
    hist,            \* saveSyncToHistory: the history it loaded
    scrOnline,       \* Backup screen state isOnline
    scrCount,        \* Backup screen state unsyncedCount
    bill_numbering,  \* AsyncStorage 'bill_numbering' (parsed)
    today,           \* new Date(): the calendar day
    numPc,           \* position of each bill numbering call
    numLocal,        \* the locals of each bill numbering call
    numLog           \* every bill numbering call that returned, in order

catalog == <<categories, items, item_categories>>
store == <<sync_queue, bills, rowSynced, catalog, sync_history, last_sync_time, appended>>
netw == <<net, isOnline, userData, clock, tieDesc>>
sched == <<fetching, queueCalls, enqTimers, recTimers>>
caller == <<trig, pendingAtCall, initialNow>>
pass == <<pc, caller, sent, res, entry, hist>>
screen == <<scrOnline, scrCount>>
numbering == <<bill_numbering, today, numPc, numLocal, numLog>>
vars == <<store, netw, sched, calls, pass, screen, numbering>>

\* ----------------------------------------------------------------- helpers
Min(a, b) == IF a < b THEN a ELSE b

\* ORDER BY created_at ASC over the rows `ids` of `table`.  SQL leaves the
\* order of rows with equal keys open; a given build resolves it one way.
RECURSIVE OrderByCreatedAt(_, _, _)
OrderByCreatedAt(table, ids, desc) ==
    IF ids = {} THEN <<>>
    ELSE LET first == CHOOSE i \in ids : \A j \in ids :
                          \/ table[i].created_at < table[j].created_at
                          \/ /\ table[i].created_at = table[j].created_at
                             /\ IF desc THEN i >= j ELSE i <= j
         IN <<first>> \o OrderByCreatedAt(table, ids \ {first}, desc)

\* SELECT * FROM sync_queue WHERE entity_type = kind AND synced = 0
\* ORDER BY created_at ASC
PendingFor(kind) ==
    OrderByCreatedAt(sync_queue,
                     {i \in DOMAIN sync_queue :
                          sync_queue[i].entity_type = kind /\ sync_queue[i].synced = 0},
                     tieDesc)

\* SELECT * FROM sync_queue WHERE synced = 0 ORDER BY created_at ASC
getPendingOperations ==
    OrderByCreatedAt(sync_queue,
                     {i \in DOMAIN sync_queue : sync_queue[i].synced = 0},
                     tieDesc)

\* SELECT * FROM bills WHERE is_synced = 0 ORDER BY created_at ASC LIMIT 50
UnsyncedBills ==
    LET un == {i \in DOMAIN bills : ~bills[i]}
    IN {i \in un : Cardinality({j \in un : j < i}) < BillLimit}

\* the element of syncPayload built from one queue row
Payload(row) ==
    [operation |-> row.operation_type,
     data |-> IF row.operation_type # "delete" THEN row.data ELSE Undefined,
     id |-> IF row.operation_type = "delete" THEN row.entity_id ELSE Undefined]

SyncPayload(ids) == [n \in DOMAIN ids |-> Payload(sync_queue[ids[n]])]

IdSet(ids) == {ids[n] : n \in DOMAIN ids}

\* what is waiting to be uploaded: unsynced queue operations plus unsynced bills
pendingCount ==
    Len(getPendingOperations) + Cardinality({b \in DOMAIN bills : ~bills[b]})

\* markOperationSynced whose UPDATE matches no row
markOperationSynced_NoRow(table, id) == table

\* UPDATE sync_queue SET synced = 1, synced_at = ? WHERE id = ?
markOperationSynced(table, id) ==
    [table EXCEPT ![id].synced = 1]

\* UPDATE sync_queue SET retry_count = retry_count + 1, last_error = ? WHERE id = ?
updateRetryCount(table, id, error) ==
    [table EXCEPT ![id].retry_count = @ + 1, ![id].last_error = error]

RECURSIVE MarkAll(_, _)
MarkAll(table, ids) ==
    IF ids = <<>> THEN table
    ELSE MarkAll(markOperationSynced(table, Head(ids)), Tail(ids))

\* the entry saveSyncToHistory builds
NewEntry(now, categoriesSynced, itemsSynced, billsSynced) ==
    [timestamp |-> now,
     items |-> SelectSeq(<<[name |-> "Categories", count |-> categoriesSynced],
                           [name |-> "Items", count |-> itemsSynced],
                           [name |-> "Bills", count |-> billsSynced]>>,
                         LAMBDA item : item.count > 0)]

\* saveSyncToHistory that keeps the tail: history.slice(-20)
Unshift_KeepsOldest(history, newEntry) ==
    LET h == <<newEntry>> \o history
    IN IF Len(h) > HistoryLimit THEN SubSeq(h, Len(h) - HistoryLimit + 1, Len(h)) ELSE h

\* history.unshift(newEntry); if (history.length > 20) history = history.slice(0, 20)
Unshift(history, newEntry) ==
    LET h == <<newEntry>> \o history
    IN IF Len(h) > HistoryLimit THEN SubSeq(h, 1, HistoryLimit) ELSE h

\* state.isConnected ?? false
NetStates == {"connected", "disconnected", "unknown"}
IsConnected(state) == state = "connected"

\* getNetworkStatus(): NetInfo.fetch() then isConnected ?? false
getNetworkStatus == net

InFlight(p) == pc[p] \notin {"idle", "done"}

\* Backup screen state isSyncing: set before the await of syncAll(), cleared after it
isSyncing == \E p \in Passes : trig[p] = "manual"

\* the slot a new syncAll() invocation runs in
FreeSlot(p) == pc[p] = "idle" /\ \A q \in Passes : q < p => pc[q] # "idle"

NoResults == [k \in EntityTypes |-> NoResult]
NoBatches == [k \in EntityTypes |-> <<>>]
NoEntry == [timestamp |-> NoTime, items |-> <<>>]

\* the slots of bill numbering calls; getItem('bill_numbering') resolving to
\* null; a call with no locals yet
NumberCalls == 1 .. MaxNumberCalls
NoNumber == -1
NoSettings ==
    [prefix |-> "null", startingNumber |-> <<>>, includeDate |-> FALSE,
     currentNumber |-> NoNumber]
NoLocal == [settings |-> NoSettings, billNumber |-> <<>>, number |-> NoNumber, day |-> 0]

\* ---------------------------------------------------------------- initial
Init ==
    /\ net \in BOOLEAN
    /\ isOnline = TRUE
    /\ userData = TRUE
    /\ clock = 0
    /\ tieDesc \in BOOLEAN
    /\ sync_queue = <<>>
    /\ bills = <<>>
    /\ rowSynced = [k \in RowKinds |-> [e \in EntityIds |-> FALSE]]
    /\ categories = <<>>
    /\ items = <<>>
    /\ item_categories = <<>>
    /\ sync_history = <<>>
    /\ last_sync_time = NoTime
    /\ appended = <<>>
    /\ fetching = 0
    /\ queueCalls = <<>>
    /\ enqTimers = 0
    /\ recTimers = 0
    /\ calls = 0
    /\ pc = [p \in Passes |-> "idle"]
    /\ trig = [p \in Passes |-> "none"]
    /\ pendingAtCall = [p \in Passes |-> 0]
    /\ initialNow = [p \in Passes |-> NoTime]
    /\ sent = [p \in Passes |-> NoBatches]
    /\ res = [p \in Passes |-> NoResults]
    /\ hist = [p \in Passes |-> <<>>]
    /\ entry = [p \in Passes |-> NoEntry]
    /\ scrOnline = FALSE
    /\ scrCount = 0
    /\ bill_numbering = NoSettings
    /\ today = 0
    /\ numPc = [c \in NumberCalls |-> "idle"]
    /\ numLocal = [c \in NumberCalls |-> NoLocal]
    /\ numLog = <<>>

\* ------------------------------------------------------------ environment
\* new Date(): the readings the clock may give now (it never runs backwards)
NowsUpTo(max) == {t \in clock .. max : t = clock \/ t = clock + 1}
Nows == NowsUpTo(MaxClock)

\* a bill is saved locally (bills row with is_synced = 0)
CreateBill ==
    /\ Len(bills) < MaxBills
    /\ bills' = Append(bills, FALSE)
    /\ UNCHANGED <<calls, sync_queue, rowSynced, catalog, sync_history, last_sync_time, appended,
                   netw, sched, pass, screen, numbering>>

\* logout(): removeUserData()
Logout ==
    /\ userData
    /\ userData' = FALSE
    /\ UNCHANGED <<calls, store, net, isOnline, clock, tieDesc, sched, pass, screen, numbering>>

\* login(): saveUserData(authData)
Login ==
    /\ ~userData
    /\ userData' = TRUE
    /\ UNCHANGED <<calls, store, net, isOnline, clock, tieDesc, sched, pass, screen, numbering>>

\* the process is killed and started again: memory is lost, storage is kept
Restart ==
    /\ isOnline' = TRUE
    /\ fetching' = 0
    /\ queueCalls' = [c \in DOMAIN queueCalls |->
           IF queueCalls[c].result = "awaiting"
           THEN [queueCalls[c] EXCEPT !.result = "killed"] ELSE queueCalls[c]]
    /\ enqTimers' = 0
    /\ recTimers' = 0
    /\ pc' = [p \in Passes |-> "idle"]
    /\ trig' = [p \in Passes |-> "none"]
    /\ pendingAtCall' = [p \in Passes |-> 0]
    /\ initialNow' = [p \in Passes |-> NoTime]
    /\ sent' = [p \in Passes |-> NoBatches]
    /\ res' = [p \in Passes |-> NoResults]
    /\ hist' = [p \in Passes |-> <<>>]
    /\ entry' = [p \in Passes |-> NoEntry]
    /\ scrOnline' = FALSE
    /\ scrCount' = 0
    /\ numPc' = [c \in NumberCalls |-> "idle"]
    /\ numLocal' = [c \in NumberCalls |-> NoLocal]
    /\ UNCHANGED <<calls, store, net, userData, clock, tieDesc, bill_numbering, today, numLog>>

\* ------------------------------------------------------- network listener
\* a listener that schedules a sync on every event reporting online
NetworkListener_AnyOnline(state) ==
    LET nowOnline == IsConnected(state)
    IN /\ nowOnline => recTimers < MaxReconnects
       /\ net' = nowOnline
       /\ isOnline' = nowOnline
       /\ recTimers' = IF nowOnline THEN recTimers + 1 ELSE recTimers
       /\ UNCHANGED <<calls, store, userData, clock, tieDesc, fetching, queueCalls,
                      enqTimers, pass, screen, numbering>>

\* NetInfo.addEventListener callback
NetworkListener(state) ==
    LET wasOffline == ~isOnline
        nowOnline == IsConnected(state)
    IN /\ (wasOffline /\ nowOnline) => recTimers < MaxReconnects
       /\ net' = nowOnline
       /\ isOnline' = nowOnline
       /\ recTimers' = IF wasOffline /\ nowOnline THEN recTimers + 1 ELSE recTimers
       /\ UNCHANGED <<calls, store, userData, clock, tieDesc, fetching, queueCalls,
                      enqTimers, pass, screen, numbering>>

\* ------------------------------------------------------------ the queue
\* queueOperation up to its await: the INSERT
queueOperation(operation_type, entity_type, entity_id, now) ==
    /\ Len(sync_queue) < MaxOps
    /\ fetching < MaxFetching
    /\ now >= clock
    /\ clock' = now
    /\ sync_queue' = Append(sync_queue,
           [id |-> Len(sync_queue) + 1,
            operation_type |-> operation_type,
            entity_type |-> entity_type,
            entity_id |-> entity_id,
            data |-> entity_id,
            retry_count |-> 0,
            synced |-> 0,
            last_error |-> NoError,
            created_at |-> now])
    /\ fetching' = fetching + 1
    /\ queueCalls' = Append(queueCalls, [row |-> Len(sync_queue) + 1, result |-> "awaiting"])
    /\ UNCHANGED <<calls, bills, rowSynced, catalog, sync_history, last_sync_time, appended,
                   net, isOnline, userData, tieDesc, enqTimers, recTimers, pass, screen, numbering>>

\* queueOperation after await getNetworkStatus(): setTimeout(syncAll, 500)
queueOperationSchedule ==
    /\ fetching > 0
    /\ getNetworkStatus => enqTimers < MaxTimers
    /\ fetching' = fetching - 1
    /\ \E c \in DOMAIN queueCalls :
           /\ queueCalls[c].result = "awaiting"
           /\ queueCalls' = [queueCalls EXCEPT ![c].result = "resolved"]
    /\ enqTimers' = IF getNetworkStatus THEN enqTimers + 1 ELSE enqTimers
    /\ UNCHANGED <<calls, store, netw, recTimers, pass, screen, numbering>>

\* ------------------------------------------------------------- syncAll
\* a call of syncAll(): runs to its first await, getNetworkStatus()
syncAllCall(p, by) ==
    /\ FreeSlot(p)
    /\ pc' = [pc EXCEPT ![p] = "net"]
    /\ trig' = [trig EXCEPT ![p] = by]
    /\ pendingAtCall' = [pendingAtCall EXCEPT ![p] = pendingCount]
    /\ UNCHANGED initialNow
    /\ UNCHANGED <<sent, res, entry, hist>>

\* a call of syncAll() in a behaviour that counts its calls
syncAll(p, by) ==
    /\ calls < MaxSyncs
    /\ calls' = calls + 1
    /\ syncAllCall(p, by)

\* setTimeout(() => syncAll(), 500) of queueOperation fires
EnqueueTimer(p) ==
    /\ enqTimers > 0
    /\ enqTimers' = enqTimers - 1
    /\ syncAll(p, "timer")
    /\ UNCHANGED <<store, netw, fetching, queueCalls, recTimers, screen, numbering>>

\* setTimeout(() => syncAll(), 1000) of the network listener fires
ReconnectTimer(p) ==
    /\ recTimers > 0
    /\ recTimers' = recTimers - 1
    /\ syncAll(p, "timer")
    /\ UNCHANGED <<store, netw, fetching, queueCalls, enqTimers, screen, numbering>>

\* Backup screen mounts: loadBackupData
loadBackupData ==
    /\ scrCount' = Cardinality({i \in DOMAIN bills : ~bills[i]})
    /\ scrOnline' = getNetworkStatus
    /\ UNCHANGED <<calls, store, netw, sched, pass, numbering>>

\* 'Backup Now' pressed (button disabled while !isOnline || isSyncing)
handleBackupNow(p) ==
    /\ scrOnline /\ ~isSyncing
    /\ scrCount # 0
    /\ syncAll(p, "manual")
    /\ UNCHANGED <<store, netw, sched, scrOnline, scrCount, numbering>>

\* syncItems up to the await of API.items.sync(syncPayload), reached with the
\* results r and the batches s of the pass; with nothing pending it returns
\* and syncBills runs to its await of getUserData()
EnterItems(p, r, s) ==
    LET operations == PendingFor("item")
    IN IF Len(operations) = 0
       THEN /\ res' = [res EXCEPT ![p] =
                          [r EXCEPT !["item"] = [success |-> TRUE, synced |-> 0]]]
            /\ sent' = [sent EXCEPT ![p] = s]
            /\ pc' = [pc EXCEPT ![p] = "bill"]
       ELSE /\ res' = [res EXCEPT ![p] = r]
            /\ sent' = [sent EXCEPT ![p] = [s EXCEPT !["item"] = operations]]
            /\ pc' = [pc EXCEPT ![p] = "item_call"]

\* syncCategories up to the await of API.categories.sync(syncPayload); with
\* nothing pending it returns and syncItems runs
EnterCategories(p) ==
    LET operations == PendingFor("category")
    IN IF Len(operations) = 0
       THEN EnterItems(p, [res[p] EXCEPT !["category"] = [success |-> TRUE, synced |-> 0]],
                       sent[p])
       ELSE /\ sent' = [sent EXCEPT ![p]["category"] = operations]
            /\ pc' = [pc EXCEPT ![p] = "category_call"]
            /\ UNCHANGED res

\* the reconciler syncAll calls after the one of `kind` returned result r
EnterNext(p, kind, r) ==
    IF kind = "category"
    THEN EnterItems(p, [res[p] EXCEPT !["category"] = r], sent[p])
    ELSE /\ res' = [res EXCEPT ![p]["item"] = r]
         /\ pc' = [pc EXCEPT ![p] = "bill"]
         /\ UNCHANGED sent

\* syncAll that ignores the network status
syncAllOffline_Proceeds(p) ==
    /\ pc[p] = "net"
    /\ ~getNetworkStatus
    /\ EnterCategories(p)
    /\ UNCHANGED <<calls, store, netw, sched, caller, entry, hist, screen, numbering>>

\* syncAll after await getNetworkStatus(): offline, return the zero result
syncAllOffline(p) ==
    /\ pc[p] = "net"
    /\ ~getNetworkStatus
    /\ pc' = [pc EXCEPT ![p] = "done"]
    /\ UNCHANGED <<calls, store, netw, sched, caller, sent, res, entry, hist, screen, numbering>>

\* syncAll after await getNetworkStatus(): online, call syncCategories()
syncAllOnline(p) ==
    /\ pc[p] = "net"
    /\ getNetworkStatus
    /\ EnterCategories(p)
    /\ UNCHANGED <<calls, store, netw, sched, caller, entry, hist, screen, numbering>>

\* API.<kind>.sync resolved: mark every operation read, apply the snapshots,
\* return; syncAll calls the next reconciler
syncResponse(p, kind, snapshots) ==
    /\ pc[p] = kind \o "_call"
    /\ sync_queue' = MarkAll(sync_queue, sent[p][kind])
    /\ rowSynced' = [rowSynced EXCEPT ![kind] =
                        [e \in EntityIds |-> IF e \in snapshots THEN TRUE ELSE @[e]]]
    /\ EnterNext(p, kind, [success |-> TRUE, synced |-> Len(sent[p][kind])])
    /\ UNCHANGED <<calls, bills, catalog, sync_history, last_sync_time, appended,
                   netw, sched, caller, entry, hist, screen, numbering>>

\* a catch block that marks the batch all the same
syncFailure_Marks(p, kind) ==
    /\ pc[p] = kind \o "_call"
    /\ sync_queue' = MarkAll(sync_queue, sent[p][kind])
    /\ EnterNext(p, kind, [success |-> FALSE, synced |-> 0])
    /\ UNCHANGED <<calls, bills, rowSynced, catalog, sync_history, last_sync_time, appended,
                   netw, sched, caller, entry, hist, screen, numbering>>

\* a failure that is thrown out of syncAll: the pass ends there
syncFailure_Aborts(p, kind) ==
    /\ pc[p] = kind \o "_call"
    /\ res' = [res EXCEPT ![p][kind] = [success |-> FALSE, synced |-> 0]]
    /\ pc' = [pc EXCEPT ![p] = "done"]
    /\ UNCHANGED <<calls, store, netw, sched, caller, sent, entry, hist, screen, numbering>>

\* API.<kind>.sync rejected: the catch block; syncAll calls the next reconciler
syncFailure(p, kind) ==
    /\ pc[p] = kind \o "_call"
    /\ EnterNext(p, kind, [success |-> FALSE, synced |-> 0])
    /\ UNCHANGED <<calls, store, netw, sched, caller, entry, hist, screen, numbering>>

\* syncAll that saves the history whenever anything was synced
Aggregate_AnySynced(p, billsResult, now) ==
    LET c == res[p]["category"]
        i == res[p]["item"]
    IN /\ res' = [res EXCEPT ![p]["bill"] = billsResult]
       /\ IF c.synced > 0 \/ i.synced > 0 \/ billsResult.synced > 0
          THEN /\ now >= clock
               /\ clock' = now
               /\ entry' = [entry EXCEPT ![p] =
                               NewEntry(now, c.synced, i.synced, billsResult.synced)]
               /\ pc' = [pc EXCEPT ![p] = "hist_get"]
          ELSE /\ now = clock
               /\ pc' = [pc EXCEPT ![p] = "done"]
               /\ UNCHANGED <<entry, clock>>

\* syncAll once billsResult is known: aggregate, start saveSyncToHistory
Aggregate(p, billsResult, now) ==
    LET c == res[p]["category"]
        i == res[p]["item"]
        success == c.success /\ i.success /\ billsResult.success
    IN /\ res' = [res EXCEPT ![p]["bill"] = billsResult]
       /\ IF success /\ (c.synced > 0 \/ i.synced > 0 \/ billsResult.synced > 0)
          THEN /\ now >= clock
               /\ clock' = now
               /\ entry' = [entry EXCEPT ![p] =
                               NewEntry(now, c.synced, i.synced, billsResult.synced)]
               /\ pc' = [pc EXCEPT ![p] = "hist_get"]
          ELSE /\ now = clock
               /\ pc' = [pc EXCEPT ![p] = "done"]
               /\ UNCHANGED <<entry, clock>>

\* syncBills after await getUserData(), up to the await of API.bills.sync
syncBillsRead(p, now) ==
    /\ pc[p] = "bill"
    /\ IF ~userData
       THEN /\ Aggregate(p, [success |-> FALSE, synced |-> 0], now)
            /\ UNCHANGED sent
       ELSE LET billIds == OrderByCreatedAt([b \in DOMAIN bills |-> [created_at |-> 0]],
                                            UnsyncedBills, FALSE)
            IN IF Len(billIds) = 0
               THEN /\ Aggregate(p, [success |-> TRUE, synced |-> 0], now)
                    /\ UNCHANGED sent
               ELSE /\ now = clock
                    /\ sent' = [sent EXCEPT ![p]["bill"] = billIds]
                    /\ pc' = [pc EXCEPT ![p] = "bill_call"]
                    /\ UNCHANGED <<res, entry, clock>>
    /\ UNCHANGED <<calls, store, net, isOnline, userData, tieDesc, sched, caller, hist, screen, numbering>>

\* API.bills.sync resolved: UPDATE bills SET is_synced = 1 WHERE id IN (...)
syncBillsResponse(p, now) ==
    /\ pc[p] = "bill_call"
    /\ bills' = [b \in DOMAIN bills |-> bills[b] \/ b \in IdSet(sent[p]["bill"])]
    /\ Aggregate(p, [success |-> TRUE, synced |-> Len(sent[p]["bill"])], now)
    /\ UNCHANGED <<calls, sync_queue, rowSynced, catalog, sync_history, last_sync_time, appended,
                   net, isOnline, userData, tieDesc, sched, caller, sent, hist, screen, numbering>>

\* API.bills.sync rejected: the catch block
syncBillsFailure(p) ==
    /\ pc[p] = "bill_call"
    /\ Aggregate(p, [success |-> FALSE, synced |-> 0], clock)
    /\ UNCHANGED <<calls, store, net, isOnline, userData, tieDesc, sched, caller, sent, hist, screen, numbering>>

\* saveSyncToHistory: AsyncStorage.getItem('sync_history') resolved
saveSyncToHistoryGet(p) ==
    /\ pc[p] = "hist_get"
    /\ hist' = [hist EXCEPT ![p] = sync_history]
    /\ pc' = [pc EXCEPT ![p] = "hist_set"]
    /\ UNCHANGED <<calls, store, netw, sched, caller, sent, res, entry, screen, numbering>>

\* saveSyncToHistory: unshift, slice, AsyncStorage.setItem('sync_history')
saveSyncToHistorySet(p) ==
    /\ pc[p] = "hist_set"
    /\ sync_history' = Unshift(hist[p], entry[p])
    /\ appended' = Append(appended, entry[p])
    /\ hist' = [hist EXCEPT ![p] = <<>>]
    /\ entry' = [entry EXCEPT ![p] = NoEntry]
    /\ pc' = [pc EXCEPT ![p] = "last_sync"]
    /\ UNCHANGED <<calls, sync_queue, bills, rowSynced, catalog, last_sync_time,
                   netw, sched, caller, sent, res, screen, numbering>>

\* syncAll: AsyncStorage.setItem('last_sync_time', now)
syncAllLastSync(p, now) ==
    /\ pc[p] = "last_sync"
    /\ trig[p] # "initial"
    /\ now >= clock
    /\ clock' = now
    /\ last_sync_time' = now
    /\ pc' = [pc EXCEPT ![p] = "done"]
    /\ UNCHANGED <<calls, sync_queue, bills, rowSynced, catalog, sync_history, appended,
                   net, isOnline, userData, tieDesc, sched, caller, sent, res, entry, hist,
                   screen, numbering>>

\* the pass was skipped because the device was offline
Skipped(p) == pc[p] = "done" /\ res[p]["category"] = NoResult

\* a syncAll whose success is true as soon as one reconciler succeeded
Result_AnySuccess(p) ==
    IF Skipped(p)
    THEN [success |-> FALSE, categoriesSynced |-> 0, itemsSynced |-> 0, billsSynced |-> 0]
    ELSE [success |-> res[p]["category"].success \/ res[p]["item"].success
                          \/ res[p]["bill"].success,
          categoriesSynced |-> res[p]["category"].synced,
          itemsSynced |-> res[p]["item"].synced,
          billsSynced |-> res[p]["bill"].synced]

\* the value syncAll returns
Result(p) ==
    IF Skipped(p)
    THEN [success |-> FALSE, categoriesSynced |-> 0, itemsSynced |-> 0, billsSynced |-> 0]
    ELSE [success |-> res[p]["category"].success /\ res[p]["item"].success
                          /\ res[p]["bill"].success,
          categoriesSynced |-> res[p]["category"].synced,
          itemsSynced |-> res[p]["item"].synced,
          billsSynced |-> res[p]["bill"].synced]

\* syncAll returns to a timer callback, which drops the result
Return(p) ==
    /\ pc[p] = "done"
    /\ trig[p] = "timer"
    /\ pc' = [pc EXCEPT ![p] = "idle"]
    /\ trig' = [trig EXCEPT ![p] = "none"]
    /\ pendingAtCall' = [pendingAtCall EXCEPT ![p] = 0]
    /\ UNCHANGED initialNow
    /\ sent' = [sent EXCEPT ![p] = NoBatches]
    /\ res' = [res EXCEPT ![p] = NoResults]
    /\ UNCHANGED <<calls, store, netw, sched, entry, hist, screen, numbering>>

\* syncAll returns to handleBackupNow, which continues after its await
handleBackupNowResult(p, now) ==
    /\ pc[p] = "done"
    /\ trig[p] = "manual"
    /\ pc' = [pc EXCEPT ![p] = "idle"]
    /\ trig' = [trig EXCEPT ![p] = "none"]
    /\ pendingAtCall' = [pendingAtCall EXCEPT ![p] = 0]
    /\ UNCHANGED initialNow
    /\ sent' = [sent EXCEPT ![p] = NoBatches]
    /\ res' = [res EXCEPT ![p] = NoResults]
    /\ IF Result(p).success
       THEN /\ now >= clock
            /\ clock' = now
            /\ last_sync_time' = now
            /\ scrCount' = 0
       ELSE /\ now = clock
            /\ UNCHANGED <<clock, last_sync_time, scrCount>>
    /\ UNCHANGED <<calls, sync_queue, bills, rowSynced, catalog, sync_history, appended,
                   net, isOnline, userData, tieDesc, sched, entry, hist, scrOnline,
                   numbering>>

\* the steps of a syncAll pass; `nows` are the clock readings it may get
PassStep(p, nows) ==
    \/ syncAllOffline(p)
    \/ syncAllOnline(p)
    \/ \E kind \in RowKinds :
        \/ syncFailure(p, kind)
        \/ \E snapshots \in SUBSET EntityIds : syncResponse(p, kind, snapshots)
    \/ \E now \in nows : syncBillsRead(p, now)
    \/ \E now \in nows : syncBillsResponse(p, now)
    \/ syncBillsFailure(p)
    \/ saveSyncToHistoryGet(p)
    \/ saveSyncToHistorySet(p)
    \/ \E now \in nows : syncAllLastSync(p, now)
    \/ Return(p)

\* ------------------------------------------------------------------- next
\* a device whose connectivity does not change: passes are started by the
\* timers of queueOperation and may overlap
Next ==
    \/ CreateBill
    \/ \E o \in OpMenu, e \in EntityIds, now \in Nows : queueOperation(o[1], o[2], e, now)
    \/ queueOperationSchedule
    \/ \E p \in Passes :
        \/ EnqueueTimer(p)
        \/ PassStep(p, {clock})

Spec == Init /\ [][Next]_vars

\* the slot of a device whose triggers are spaced so that passes do not overlap
Solo == {1}

\* a device whose connectivity changes, no faster than the listener's timer
\* fires, with passes one at a time
NextNet ==
    \/ CreateBill
    \/ \E state \in NetStates : NetworkListener(state) /\ recTimers' <= MaxTimers
    \/ \E o \in OpMenu, e \in EntityIds, now \in Nows : queueOperation(o[1], o[2], e, now)
    \/ queueOperationSchedule
    \/ \E p \in Solo :
        \/ EnqueueTimer(p)
        \/ ReconnectTimer(p)
        \/ PassStep(p, {clock})

SpecNet == Init /\ [][NextNet]_vars

\* the queue alone: callers enqueue, the process restarts, no pass runs
NextQueue ==
    \/ \E t \in OpTypes, k \in EntityTypes, e \in EntityIds, now \in Nows :
           queueOperation(t, k, e, now)
    \/ queueOperationSchedule
    \/ \E state \in NetStates : NetworkListener(state)
    \/ Restart

SpecQueue == Init /\ [][NextQueue]_vars

\* saveSyncToHistory is called with the counts of a pass (syncAll, initialSync)
saveSyncToHistory(p, categoriesSynced, itemsSynced, billsSynced, now) ==
    /\ pc[p] = "idle"
    /\ Len(appended) < MaxAppends
    /\ now >= clock
    /\ clock' = now
    /\ entry' = [entry EXCEPT ![p] =
                    NewEntry(now, categoriesSynced, itemsSynced, billsSynced)]
    /\ trig' = [trig EXCEPT ![p] = "timer"]
    /\ UNCHANGED <<pendingAtCall, initialNow>>
    /\ pc' = [pc EXCEPT ![p] = "hist_get"]
    /\ UNCHANGED <<calls, store, net, isOnline, userData, tieDesc, sched, sent, res, hist,
                   screen, numbering>>

\* the counts the history specification appends
HistCounts == {<<1, 0, 0>>}

\* the history log alone: one append after the other
NextHist ==
    \E p \in Solo :
        \/ \E c \in HistCounts, now \in NowsUpTo(MaxClockH) :
               saveSyncToHistory(p, c[1], c[2], c[3], now)
        \/ saveSyncToHistoryGet(p)
        \/ saveSyncToHistorySet(p)
        \/ \E now \in NowsUpTo(MaxClockH) : syncAllLastSync(p, now)
        \/ Return(p)

SpecHist == Init /\ [][NextHist]_vars

\* either pending timer fires and calls syncAll()
TimerFires(p) ==
    /\ \/ enqTimers > 0 /\ enqTimers' = enqTimers - 1 /\ UNCHANGED recTimers
       \/ recTimers > 0 /\ recTimers' = recTimers - 1 /\ UNCHANGED enqTimers
    /\ syncAllCall(p, "timer")
    /\ UNCHANGED <<calls, store, netw, fetching, queueCalls, screen, numbering>>

\* the steps of a syncAll pass that found the device online, against a remote
\* that accepts every batch
PassStepOnline(p) ==
    \/ syncAllOnline(p)
    \/ \E kind \in RowKinds : syncResponse(p, kind, {})
    \/ syncBillsRead(p, clock)
    \/ syncBillsResponse(p, clock)
    \/ saveSyncToHistoryGet(p)
    \/ saveSyncToHistorySet(p)
    \/ syncAllLastSync(p, clock)
    \/ Return(p)

\* the steps of a syncAll pass against a remote that accepts every batch
PassStepAccepted(p) ==
    \/ syncAllOffline(p)
    \/ PassStepOnline(p)

\* a device whose connectivity changes, whose remote accepts every batch, with
\* bills created and operations enqueued for every entity kind; the event loop runs
\* resolved awaits, due timers and answered calls
NextLive ==
    \/ \E state \in NetStates : NetworkListener(state)
    \/ CreateBill
    \/ \E k \in EntityTypes, e \in EntityIds : queueOperation("create", k, e, clock)
    \/ queueOperationSchedule
    \/ \E p \in Solo :
        \/ TimerFires(p)
        \/ PassStepAccepted(p)

SpecLive ==
    /\ Init /\ [][NextLive]_vars
    /\ WF_vars(queueOperationSchedule)
    /\ \A p \in Solo : WF_vars(TimerFires(p)) /\ WF_vars(PassStepAccepted(p))

\* ================================================================ claims
\* the pass is doing reconciler or history work
Working(p) == pc[p] \notin {"idle", "net", "done"}

\* the pass left the remote call of `kind` in this step, with or without success
Succeeded(p, kind) ==
    pc[p] = kind \o "_call" /\ pc'[p] # pc[p] /\ res'[p][kind].success
Failed(p, kind) ==
    pc[p] = kind \o "_call" /\ pc'[p] # pc[p] /\ ~res'[p][kind].success

\* the queue rows whose synced flag this step sets
NewlySynced ==
    {i \in DOMAIN sync_queue : sync_queue[i].synced = 0 /\ sync_queue'[i].synced = 1}

\* the rows of `kind` in the order in which they were enqueued
EnqueuedOrder(kind) ==
    OrderByCreatedAt([i \in DOMAIN sync_queue |-> [created_at |-> 0]],
                     {i \in DOMAIN sync_queue : sync_queue[i].entity_type = kind},
                     FALSE)

\* position of row id i in the batch
IndexIn(batch, i) == CHOOSE n \in DOMAIN batch : batch[n] = i

\* C1: at most one syncAll pass does reconciler work at a time: a syncAll
\* invoked while another has not returned performs no reconciler work.
C1_OnePassAtATime ==
    \A p, q \in Passes : (Working(p) /\ Working(q)) => p = q

\* C2: a synced flag is set only by a reconciler whose remote call, with a
\* batch holding that operation, succeeded; a failed call marks nothing,
\* applies no snapshot, returns {success: false, synced: 0} and leaves the
\* operations of its batch pending, read back in the same order.
C2_Step ==
    /\ NewlySynced # {} =>
           \E p \in Passes, kind \in RowKinds :
               Succeeded(p, kind) /\ NewlySynced \subseteq IdSet(sent[p][kind])
    /\ \A p \in Passes, kind \in RowKinds :
           Failed(p, kind) =>
               LET batch == sent[p][kind]
                   after == PendingFor(kind)'
                   table == sync_queue'
               IN /\ table = sync_queue
                  /\ rowSynced' = rowSynced
                  /\ res'[p][kind] = [success |-> FALSE, synced |-> 0]
                  /\ after = PendingFor(kind)
                  /\ SelectSeq(after, LAMBDA i : i \in IdSet(batch))
                         = SelectSeq(batch, LAMBDA i : table[i].synced = 0)

C2_MarkedOnlyBySuccess == [][C2_Step]_vars

\* C2 happens: a category call failed while another category operation, not
\* in its batch, is pending
C2_Witness ==
    \E p \in Passes :
        /\ sent[p]["category"] # <<>>
        /\ res[p]["category"] = [success |-> FALSE, synced |-> 0]
        /\ \A i \in IdSet(sent[p]["category"]) : sync_queue[i].synced = 0
        /\ \E i \in DOMAIN sync_queue :
               /\ sync_queue[i].entity_type = "category"
               /\ i \notin IdSet(sent[p]["category"])

\* C3: a syncAll that finds the device offline changes nothing (queue, bills,
\* history, last sync time), issues no remote call and returns the zero result.
C3_Step ==
    \A p \in Passes :
        (pc[p] = "net" /\ ~getNetworkStatus /\ pc'[p] # "net") =>
            /\ store' = store
            /\ pc'[p] = "done"
            /\ sent'[p] = NoBatches
            /\ Result(p)' = [success |-> FALSE, categoriesSynced |-> 0,
                             itemsSynced |-> 0, billsSynced |-> 0]

C3_OfflineChangesNothing == [][C3_Step]_vars

\* C3 happens: a pass was skipped while operations and a bill were pending
C3_Witness ==
    \E p \in Passes :
        /\ Skipped(p)
        /\ getPendingOperations # <<>>
        /\ UnsyncedBills # {}

\* C4: with no pass run, the pending operations of a kind are the operations
\* enqueued for it, each once, in the order in which they were enqueued.
C4_PendingInEnqueueOrder ==
    \A kind \in EntityTypes : PendingFor(kind) = EnqueuedOrder(kind)

\* C5: an Update and a later Delete of the same entity are sent in that order.
C5_UpdateBeforeDelete ==
    \A p \in Passes : \A kind \in RowKinds :
        LET batch == sent[p][kind]
        IN \A i, j \in IdSet(batch) :
               (/\ i < j
                /\ sync_queue[i].entity_id = sync_queue[j].entity_id
                /\ sync_queue[i].operation_type = "update"
                /\ sync_queue[j].operation_type = "delete")
               => IndexIn(batch, i) < IndexIn(batch, j)

\* C6: in a pass the reconcilers run Category, Item, Bill, each finishing
\* before the next starts: when the Item call is issued the Category result
\* is known and its batch marked, and likewise Item before Bill.
C6_FixedOrder ==
    \A p \in Passes :
        LET Finished(kind) ==
                /\ res[p][kind] # NoResult
                /\ res[p][kind].success =>
                       \A i \in IdSet(sent[p][kind]) : sync_queue[i].synced = 1
        IN /\ (pc[p] = "item_call" \/ sent[p]["item"] # <<>>) => Finished("category")
           /\ (pc[p] \in {"bill", "bill_call"} \/ sent[p]["bill"] # <<>>) =>
                  Finished("category") /\ Finished("item")

\* C6 happens: the Bill call is in flight after Category and Item batches
\* were sent and acknowledged in the same pass
C6_Witness ==
    \E p \in Passes :
        /\ pc[p] = "bill_call"
        /\ res[p]["category"].synced > 0
        /\ res[p]["item"].synced > 0

\* C7: a reconciler's remote failure becomes a per-kind failure result, the
\* pass still runs the other reconcilers and returns, with success = false,
\* and the operations of the kinds that succeeded stay marked.
C7_Final ==
    \A p \in Passes :
        (pc[p] = "done" /\ ~Skipped(p)) =>
            /\ \A kind \in EntityTypes : res[p][kind] # NoResult
            /\ (\E kind \in EntityTypes : ~res[p][kind].success) => ~Result(p).success
            /\ \A kind \in RowKinds : res[p][kind].success =>
                   \A i \in IdSet(sent[p][kind]) : sync_queue[i].synced = 1
            /\ res[p]["bill"].success =>
                   \A b \in IdSet(sent[p]["bill"]) : bills[b]

C7_Step ==
    \A p \in Passes :
        /\ Failed(p, "category") =>
               IF PendingFor("item") # <<>>
               THEN pc'[p] = "item_call" /\ sent'[p]["item"] = PendingFor("item")
               ELSE pc'[p] = "bill"
        /\ Failed(p, "item") => pc'[p] = "bill"
        /\ (pc[p] = "bill" /\ pc'[p] # "bill" /\ userData /\ UnsyncedBills # {}) =>
               pc'[p] = "bill_call" /\ IdSet(sent'[p]["bill"]) = UnsyncedBills

C7_FailureIsolated == []C7_Final /\ [][C7_Step]_vars

\* C7 happens: a pass returned after its Category call failed and its Item
\* call succeeded
C7_Witness ==
    \E p \in Passes :
        /\ pc[p] = "done"
        /\ sent[p]["category"] # <<>>
        /\ ~res[p]["category"].success
        /\ res[p]["item"].synced > 0
        /\ \A i \in IdSet(sent[p]["item"]) : sync_queue[i].synced = 1

\* the pass's results say: success, and something was synced
Recordable(r) ==
    /\ r["category"].success /\ r["item"].success /\ r["bill"].success
    /\ r["category"].synced + r["item"].synced + r["bill"].synced > 0

\* C8: syncAll appends one history record and writes the last-sync time if
\* and only if the pass succeeded overall with a total synced count above
\* zero; any other pass leaves both unchanged.
C8_Step ==
    /\ \A p \in Passes :
           /\ (pc[p] \in {"bill", "bill_call"} /\ pc'[p] \notin {"bill", "bill_call"}) =>
                  IF Recordable(res'[p]) THEN pc'[p] = "hist_get" ELSE pc'[p] = "done"
           /\ (pc[p] = "hist_get" /\ pc'[p] # pc[p]) => pc'[p] = "hist_set"
           /\ (pc[p] = "hist_set" /\ pc'[p] # pc[p]) =>
                  /\ pc'[p] = "last_sync"
                  /\ sync_history' # <<>>
                  /\ Head(sync_history') =
                         NewEntry(entry[p].timestamp, res[p]["category"].synced,
                                  res[p]["item"].synced, res[p]["bill"].synced)
                  /\ Len(appended') = Len(appended) + 1
           /\ (pc[p] = "last_sync" /\ pc'[p] # pc[p]) =>
                  pc'[p] = "done" /\ last_sync_time' = clock'
           /\ (pc[p] \in {"net", "category_call", "item_call"} /\ pc'[p] # pc[p]) =>
                  pc'[p] \notin {"hist_get", "hist_set", "last_sync"}
    /\ sync_history' # sync_history =>
           \E p \in Passes : pc[p] = "hist_set" /\ pc'[p] = "last_sync" /\ Recordable(res[p])
    /\ last_sync_time' # last_sync_time =>
           \E p \in Passes : pc[p] = "last_sync" /\ pc'[p] = "done" /\ Recordable(res[p])

RECURSIVE loadBackupHistory(_)
loadBackupHistory(history) ==
    IF history = <<>> THEN <<>>
    ELSE LET rest == loadBackupHistory(Tail(history))
             h == Head(history)
             \* h goes before the first entry it is not older than
             before == {n \in DOMAIN rest : \A m \in 1 .. n : rest[m].timestamp > h.timestamp}
             k == Cardinality(before)
         IN SubSeq(rest, 1, k) \o <<h>> \o SubSeq(rest, k + 1, Len(rest))

Reverse(seq) == [n \in DOMAIN seq |-> seq[Len(seq) + 1 - n]]

\* the last n elements of seq
LastN(seq, n) == SubSeq(seq, Len(seq) - Min(n, Len(seq)) + 1, Len(seq))

\* C9: the stored history holds at most 20 records, the most recently
\* appended ones, listed newest first; after 25 appends exactly 20 remain.
C9_HistoryBound ==
    /\ Len(sync_history) <= 20
    /\ loadBackupHistory(sync_history) = Reverse(LastN(appended, 20))
    /\ Len(appended) >= 20 => Len(loadBackupHistory(sync_history)) = 20

\* C9 happens: 25 records were appended, at different clock readings
C9_Witness ==
    /\ Len(appended) = 25
    /\ Len(sync_history) = 20
    /\ appended[1].timestamp < appended[10].timestamp
    /\ appended[10].timestamp < appended[25].timestamp

\* C10: a failed remote call increments retry_count of every operation of its
\* batch, stores the failure's message as last_error and leaves it pending.
C10_Step ==
    \A p \in Passes, kind \in RowKinds :
        Failed(p, kind) =>
            \A i \in IdSet(sent[p][kind]) :
                /\ sync_queue'[i].retry_count = sync_queue[i].retry_count + 1
                /\ sync_queue'[i].last_error # NoError
                /\ sync_queue'[i].synced = sync_queue[i].synced

C10_FailureRecorded == [][C10_Step]_vars

\* a device online throughout whose remote accepts every batch: passes are
\* started by the timers of queueOperation and may overlap
NextAccepted ==
    \/ CreateBill
    \/ \E o \in OpMenu, e \in EntityIds, now \in Nows : queueOperation(o[1], o[2], e, now)
    \/ queueOperationSchedule
    \/ \E p \in Passes :
        \/ EnqueueTimer(p)
        \/ PassStepOnline(p)

SpecAccepted == Init /\ [][NextAccepted]_vars

\* a device online throughout whose user logs out and in, with passes one at
\* a time
NextSession ==
    \/ CreateBill
    \/ Logout
    \/ Login
    \/ \E o \in OpMenu, e \in EntityIds, now \in Nows : queueOperation(o[1], o[2], e, now)
    \/ queueOperationSchedule
    \/ \E p \in Solo :
        \/ EnqueueTimer(p)
        \/ PassStep(p, {clock})

SpecSession == Init /\ [][NextSession]_vars

\* the messages a failure is recorded with
Errors == {"Network Error", "Request failed with status code 400"}

\* a caller awaits markOperationSynced(operationId)
markOperationSyncedCall(operationId) ==
    /\ operationId \in DOMAIN sync_queue
    /\ sync_queue' = markOperationSynced(sync_queue, operationId)
    /\ UNCHANGED <<calls, bills, rowSynced, catalog, sync_history, last_sync_time, appended,
                   netw, sched, pass, screen, numbering>>

\* a caller awaits updateRetryCount(operationId, error)
updateRetryCountCall(operationId, error) ==
    /\ operationId \in DOMAIN sync_queue
    /\ sync_queue[operationId].retry_count < MaxRetries
    /\ sync_queue' = updateRetryCount(sync_queue, operationId, error)
    /\ UNCHANGED <<calls, bills, rowSynced, catalog, sync_history, last_sync_time, appended,
                   netw, sched, pass, screen, numbering>>

\* the queue's exported operations, called in any order
NextOps ==
    \/ \E t \in OpTypes, k \in EntityTypes, e \in EntityIds, now \in Nows :
           queueOperation(t, k, e, now)
    \/ queueOperationSchedule
    \/ \E operationId \in 1 .. MaxOps :
        \/ markOperationSyncedCall(operationId)
        \/ \E error \in Errors : updateRetryCountCall(operationId, error)

SpecOps == Init /\ [][NextOps]_vars

\* queueOperation whose INSERT throws: the catch block rethrows, no row
queueOperationInsertFails ==
    /\ Len(queueCalls) < MaxOps
    /\ queueCalls' = Append(queueCalls, [row |-> 0, result |-> "rejected"])
    /\ UNCHANGED <<calls, store, netw, fetching, enqTimers, recTimers, pass, screen, numbering>>

\* queueOperation whose await getNetworkStatus() rejects (NetInfo.fetch()
\* failed): the catch block rethrows, after the INSERT
queueOperationFetchFails ==
    /\ fetching > 0
    /\ fetching' = fetching - 1
    /\ \E c \in DOMAIN queueCalls :
           /\ queueCalls[c].result = "awaiting"
           /\ queueCalls' = [queueCalls EXCEPT ![c].result = "rejected"]
    /\ UNCHANGED <<calls, store, netw, enqTimers, recTimers, pass, screen, numbering>>

\* callers enqueue while storage and the network-status query may fail
NextEnqueue ==
    \/ \E t \in OpTypes, k \in EntityTypes, e \in EntityIds, now \in Nows :
           queueOperation(t, k, e, now)
    \/ queueOperationInsertFails
    \/ queueOperationSchedule
    \/ queueOperationFetchFails
    \/ \E state \in NetStates : NetworkListener(state)

SpecEnqueue == Init /\ [][NextEnqueue]_vars

\* ---------------------------------------------------------- initialSync
\* what API.categories.getAll() and API.items.getAll() may answer
RemoteCategories == {<<>>, <<[id |-> 5]>>}
RemoteItems ==
    {<<>>, <<[id |-> 5, category_ids |-> <<>>]>>, <<[id |-> 5, category_ids |-> <<5>>]>>}

\* a plain INSERT INTO
InsertOrReplace_Insert(table, row) == Append(table, row)

\* INSERT OR REPLACE INTO a table whose key is id: the row with that id, if
\* any, is deleted and the new row inserted
InsertOrReplace(table, row) ==
    SelectSeq(table, LAMBDA r : r.id # row.id) \o <<row>>

\* for (const category of categories) INSERT OR REPLACE INTO categories
RECURSIVE DownloadCategories(_, _, _)
DownloadCategories(table, downloaded, now) ==
    IF downloaded = <<>> THEN table
    ELSE DownloadCategories(
             InsertOrReplace(table, [id |-> Head(downloaded).id, updated_at |-> now]),
             Tail(downloaded), now)

\* for (const item of items) INSERT OR REPLACE INTO items
RECURSIVE DownloadItems(_, _, _)
DownloadItems(table, downloaded, now) ==
    IF downloaded = <<>> THEN table
    ELSE DownloadItems(
             InsertOrReplace(table, [id |-> Head(downloaded).id, updated_at |-> now]),
             Tail(downloaded), now)

\* for each item: DELETE FROM item_categories WHERE item_id = ?, then one
\* INSERT INTO item_categories per category id
RECURSIVE DownloadLinks(_, _, _)
DownloadLinks(links, downloaded, now) ==
    IF downloaded = <<>> THEN links
    ELSE LET item == Head(downloaded)
             kept == SelectSeq(links, LAMBDA l : l.item_id # item.id)
             added == [n \in DOMAIN item.category_ids |->
                          [item_id |-> item.id, category_id |-> item.category_ids[n],
                           created_at |-> now]]
         IN DownloadLinks(kept \o added, Tail(downloaded), now)

\* the rows downloaded are stored with is_synced = 1
Downloaded(flags, downloaded) ==
    [e \in EntityIds |-> IF \E n \in DOMAIN downloaded : downloaded[n].id = e
                         THEN TRUE ELSE flags[e]]

\* a call of initialSync(): runs to its first await, getNetworkStatus()
initialSync(p) ==
    /\ FreeSlot(p)
    /\ calls < MaxSyncs
    /\ calls' = calls + 1
    /\ pc' = [pc EXCEPT ![p] = "init_net"]
    /\ trig' = [trig EXCEPT ![p] = "initial"]
    /\ UNCHANGED <<store, netw, sched, pendingAtCall, initialNow, sent, res, entry, hist,
                   screen, numbering>>

\* initialSync after await getNetworkStatus(): offline, return the failure
initialSyncOffline(p) ==
    /\ pc[p] = "init_net"
    /\ ~getNetworkStatus
    /\ pc' = [pc EXCEPT ![p] = "done"]
    /\ UNCHANGED <<calls, store, netw, sched, caller, sent, res, entry, hist, screen, numbering>>

\* initialSync after await getNetworkStatus(): online, read now, call
\* API.categories.getAll()
initialSyncOnline(p, now) ==
    /\ pc[p] = "init_net"
    /\ getNetworkStatus
    /\ now >= clock
    /\ clock' = now
    /\ initialNow' = [initialNow EXCEPT ![p] = now]
    /\ pc' = [pc EXCEPT ![p] = "init_categories"]
    /\ UNCHANGED <<calls, store, net, isOnline, userData, tieDesc, sched, trig,
                   pendingAtCall, sent, res, entry, hist, screen, numbering>>

\* API.categories.getAll() resolved: store the categories, call
\* API.items.getAll()
initialSyncCategories(p, downloaded) ==
    /\ pc[p] = "init_categories"
    /\ categories' = DownloadCategories(categories, downloaded, initialNow[p])
    /\ rowSynced' = [rowSynced EXCEPT !["category"] = Downloaded(@, downloaded)]
    /\ res' = [res EXCEPT ![p]["category"] = [success |-> TRUE, synced |-> Len(downloaded)]]
    /\ pc' = [pc EXCEPT ![p] = "init_items"]
    /\ UNCHANGED <<calls, sync_queue, bills, items, item_categories, sync_history,
                   last_sync_time, appended, netw, sched, caller, sent, entry, hist, screen, numbering>>

\* API.items.getAll() resolved: store the items and their links, start
\* saveSyncToHistory(categories.length, items.length, 0)
initialSyncItems(p, downloaded, now) ==
    /\ pc[p] = "init_items"
    /\ items' = DownloadItems(items, downloaded, initialNow[p])
    /\ item_categories' = DownloadLinks(item_categories, downloaded, initialNow[p])
    /\ rowSynced' = [rowSynced EXCEPT !["item"] = Downloaded(@, downloaded)]
    /\ res' = [res EXCEPT ![p]["item"] = [success |-> TRUE, synced |-> Len(downloaded)]]
    /\ now >= clock
    /\ clock' = now
    /\ entry' = [entry EXCEPT ![p] =
                    NewEntry(now, res[p]["category"].synced, Len(downloaded), 0)]
    /\ pc' = [pc EXCEPT ![p] = "hist_get"]
    /\ UNCHANGED <<calls, sync_queue, bills, categories, sync_history, last_sync_time,
                   appended, net, isOnline, userData, tieDesc, sched, caller, sent, hist,
                   screen, numbering>>

\* a download rejected: the catch block returns the failure
initialSyncFailure(p) ==
    /\ pc[p] \in {"init_categories", "init_items"}
    /\ pc' = [pc EXCEPT ![p] = "done"]
    /\ UNCHANGED <<calls, store, netw, sched, caller, sent, res, entry, hist, screen, numbering>>

\* initialSync: AsyncStorage.setItem('last_sync_time', now)
initialSyncLastSync(p) ==
    /\ pc[p] = "last_sync"
    /\ trig[p] = "initial"
    /\ last_sync_time' = initialNow[p]
    /\ pc' = [pc EXCEPT ![p] = "done"]
    /\ UNCHANGED <<calls, sync_queue, bills, rowSynced, catalog, sync_history, appended,
                   netw, sched, caller, sent, res, entry, hist, screen, numbering>>

\* initialSync returns to its caller
initialSyncReturn(p) ==
    /\ pc[p] = "done"
    /\ trig[p] = "initial"
    /\ pc' = [pc EXCEPT ![p] = "idle"]
    /\ trig' = [trig EXCEPT ![p] = "none"]
    /\ initialNow' = [initialNow EXCEPT ![p] = NoTime]
    /\ sent' = [sent EXCEPT ![p] = NoBatches]
    /\ res' = [res EXCEPT ![p] = NoResults]
    /\ UNCHANGED <<calls, store, netw, sched, pendingAtCall, entry, hist, screen, numbering>>

\* the steps of an initialSync
InitialStep(p) ==
    \/ initialSyncOffline(p)
    \/ \E now \in Nows : initialSyncOnline(p, now)
    \/ \E downloaded \in RemoteCategories : initialSyncCategories(p, downloaded)
    \/ \E downloaded \in RemoteItems, now \in Nows : initialSyncItems(p, downloaded, now)
    \/ initialSyncFailure(p)
    \/ saveSyncToHistoryGet(p)
    \/ saveSyncToHistorySet(p)
    \/ initialSyncLastSync(p)
    \/ initialSyncReturn(p)

\* initialSync called again and again while connectivity changes
NextInitial ==
    \/ \E state \in NetStates : NetworkListener(state)
    \/ \E p \in Solo :
        \/ initialSync(p)
        \/ InitialStep(p)

SpecInitial == Init /\ [][NextInitial]_vars

\* the name under which a history record counts operations of a kind
KindName(kind) ==
    CASE kind = "category" -> "Categories"
      [] kind = "item" -> "Items"
      [] kind = "bill" -> "Bills"

\* the queue row i is synced and some history record counts its kind
Settled(i) ==
    /\ Len(sync_queue) >= i
    /\ sync_queue[i].synced = 1
    /\ \E n \in DOMAIN appended : \E m \in DOMAIN appended[n].items :
           appended[n].items[m].name = KindName(sync_queue[i].entity_type)

\* the device is offline and the network listener has seen it
Offline == ~net /\ ~isOnline

\* C11: an operation of any kind (Bill included) that is in the queue while
\* the device is offline is, once connectivity is back for good and the remote
\* accepts every batch, eventually synced and counted by a history record.
C11_EventuallySynced ==
    <>[]net =>
        \A i \in 1 .. MaxOps :
            []((Len(sync_queue) >= i /\ Offline) => <>Settled(i))

\* the count a history record gives for a kind (0 when it does not list it)
CountIn(record, kind) ==
    LET listed == SelectSeq(record.items, LAMBDA item : item.name = KindName(kind))
    IN IF listed = <<>> THEN 0 ELSE listed[1].count

\* the sum of a kind's counts over the records syncAll appended
RECURSIVE CountedFor(_, _)
CountedFor(records, kind) ==
    IF records = <<>> THEN 0
    ELSE CountIn(Head(records), kind) + CountedFor(Tail(records), kind)

\* the operations (or bills) of a kind created locally
Created(kind) ==
    IF kind = "bill" THEN Len(bills)
    ELSE Cardinality({i \in DOMAIN sync_queue : sync_queue[i].entity_type = kind})

\* C12: with a remote that accepts every batch, the history never counts an
\* operation twice: per kind, the counts of the appended records sum to at
\* most the number of operations (or bills) created locally.
C12_NoDoubleCount ==
    \A kind \in EntityTypes : CountedFor(appended, kind) <= Created(kind)

\* the pass has returned from its reconcilers with overall success = false
ReturnedFailure(p) == pc[p] = "done" /\ ~Result(p).success

Returned(batch) ==
    {[success |-> TRUE, synced |-> Len(batch)], [success |-> FALSE, synced |-> 0]}

\* the result of a pass that went online is the AND and the counts of what
\* its three reconcilers returned
C14_Final ==
    \A p \in Passes :
        (pc[p] = "done" /\ ~Skipped(p)) =>
            /\ \A kind \in EntityTypes : res[p][kind] \in Returned(sent[p][kind])
            /\ Result(p).success = (\A kind \in EntityTypes : res[p][kind].success)
            /\ Result(p).categoriesSynced = res[p]["category"].synced
            /\ Result(p).itemsSynced = res[p]["item"].synced
            /\ Result(p).billsSynced = res[p]["bill"].synced

\* what a reconciler returned is kept until the pass returns
C14_Step ==
    \A p \in Passes, kind \in EntityTypes :
        (res[p][kind] # NoResult /\ pc'[p] # "idle") => res'[p][kind] = res[p][kind]

\* C14: an online pass returns success = the AND of the three per-kind
\* success flags, and as counts the counts its reconcilers returned.
C14_ResultAggregates == []C14_Final /\ [][C14_Step]_vars

\* C14 happens: a pass returned with one kind synced and another failed
C14_Witness ==
    \E p \in Passes :
        /\ pc[p] = "done"
        /\ res[p]["category"] = [success |-> TRUE, synced |-> 1]
        /\ res[p]["item"] = [success |-> FALSE, synced |-> 0]
        /\ res[p]["bill"].success
        /\ ~Result(p).success

\* the fields of a queue row that record its sync state
SyncState(row) == <<row.synced, row.retry_count, row.last_error>>

\* C15: markOperationSynced and updateRetryCount are idempotent on the synced
\* flag, retry_count and last_error of the operation: applied twice (with the
\* same error message) they leave what one application leaves.
C15_Idempotent ==
    \A id \in DOMAIN sync_queue :
        /\ LET once == markOperationSynced(sync_queue, id)
           IN SyncState(markOperationSynced(once, id)[id]) = SyncState(once[id])
        /\ \A error \in Errors :
               LET once == updateRetryCount(sync_queue, id, error)
               IN SyncState(updateRetryCount(once, id, error)[id]) = SyncState(once[id])

\* C16: queueOperation is a local write: a call whose INSERT succeeded has
\* persisted exactly one pending row and does not report failure, whatever
\* the network state or the outcome of the network-status query; a call
\* reports failure only when no row was persisted.
C16_EnqueueIsLocal ==
    \A c \in DOMAIN queueCalls :
        LET call == queueCalls[c]
        IN /\ call.result = "rejected" => call.row = 0
           /\ call.row # 0 =>
                  /\ call.row \in DOMAIN sync_queue
                  /\ sync_queue[call.row].synced = 0
                  /\ \A d \in DOMAIN queueCalls : queueCalls[d].row = call.row => d = c

\* what syncAll returns when it finds the device offline
OfflineResult ==
    [success |-> FALSE, categoriesSynced |-> 0, itemsSynced |-> 0, billsSynced |-> 0]

\* C17: the result of a pass skipped offline is marked as skipped: no pass
\* that went online returns a result equal to it.
C17_SkippedIsDistinct ==
    \A p \in Passes :
        (pc[p] = "done" /\ ~Skipped(p)) => Result(p) # OfflineResult

\* how many rows of the table carry the key
Copies(table, Key(_), key) == Cardinality({n \in DOMAIN table : Key(table[n]) = key})

\* the two tables hold the same keys, each once
SameRowsOnce(one, two, Key(_)) ==
    LET keys == {Key(one[n]) : n \in DOMAIN one} \cup {Key(two[n]) : n \in DOMAIN two}
    IN \A key \in keys : Copies(one, Key, key) = 1 /\ Copies(two, Key, key) = 1

RowId(row) == row.id
LinkPair(link) == <<link.item_id, link.category_id>>

\* C18: initialSync is idempotent on the local rows: from any state of the
\* tables, downloading the same remote data twice leaves categories, items
\* and item_categories with the rows of downloading it once, one row per id
\* and one link per item-category pair.
C18_InitialSyncIdempotent ==
    \A cs \in RemoteCategories, is \in RemoteItems :
        LET c1 == DownloadCategories(categories, cs, clock)
            i1 == DownloadItems(items, is, clock)
            l1 == DownloadLinks(item_categories, is, clock)
            c2 == DownloadCategories(c1, cs, clock + 1)
            i2 == DownloadItems(i1, is, clock + 1)
            l2 == DownloadLinks(l1, is, clock + 1)
        IN /\ SameRowsOnce(c1, c2, RowId)
           /\ SameRowsOnce(i1, i2, RowId)
           /\ SameRowsOnce(l1, l2, LinkPair)

\* C18 happens: initialSync completed twice, each time downloading one
\* category and one item linked to it, and the tables hold one row each
C18_Witness ==
    /\ Len(appended) = 2
    /\ \A n \in 1 .. 2 : CountIn(appended[n], "category") = 1 /\ CountIn(appended[n], "item") = 1
    /\ Len(categories) = 1 /\ Len(items) = 1 /\ Len(item_categories) = 1
    /\ \A p \in Passes : pc[p] = "idle"

\* C19: connectivity flapping does not multiply passes: at any time at most
\* one reconnect-triggered syncAll is scheduled, so several offline-to-online
\* transitions within one delay lead to one invocation.
C19_OneReconnectTimer == recTimers <= 1

\* C20: the listener schedules one syncAll exactly when its flag turns from
\* offline to online; an event that leaves the flag online or turns it
\* offline schedules nothing, the first event reporting online included
\* (the flag starts online); a timer leaves only by firing into one syncAll.
C20_Step ==
    /\ (~isOnline /\ isOnline') => recTimers' = recTimers + 1
    /\ ~(~isOnline /\ isOnline') => recTimers' <= recTimers
    /\ recTimers' < recTimers =>
           /\ recTimers' = recTimers - 1
           /\ \E p \in Passes : pc[p] = "idle" /\ pc'[p] = "net"

C20_SchedulesOnTransition == [][C20_Step]_vars

\* C20 happens: the device is online, the flag never was offline, a category
\* operation enqueued while offline is pending and nothing is scheduled
C20_Witness ==
    /\ net /\ isOnline
    /\ \E i \in DOMAIN sync_queue :
           sync_queue[i].entity_type = "category" /\ sync_queue[i].synced = 0
    /\ fetching = 0 /\ enqTimers = 0 /\ recTimers = 0
    /\ \A p \in Passes : pc[p] = "idle"

\* this step is a call of syncAll() by 'Backup Now'
ManualRequest == \E p \in Passes : trig[p] # "manual" /\ trig'[p] = "manual"

\* C21: a manual sync request issued while a reconnect-triggered syncAll waits
\* on its timer cancels the timer, so that one pass runs, not two.
C21_Step == ManualRequest => recTimers' = 0

C21_ManualCancelsTimer == [][C21_Step]_vars

\* the pass has detected an invalid session: a remote call of its was rejected
\* (the catch blocks treat an unauthorized answer as any rejection), or
\* syncBills found no user data and returned before reading the bills
Rejected(p) ==
    \E kind \in EntityTypes :
        res[p][kind] # NoResult /\ ~res[p][kind].success /\ sent[p][kind] # <<>>
NoUserData(p) ==
    res[p]["bill"] # NoResult /\ ~res[p]["bill"].success /\ sent[p]["bill"] = <<>>

\* C22: when the session is invalid the pass halts entirely: no reconciler
\* issues a remote call after the condition is detected and the pass marks
\* nothing synced.
C22_HaltsOnInvalidSession ==
    \A p \in Passes :
        /\ Rejected(p) => pc[p] \notin {"item_call", "bill_call"}
        /\ (Rejected(p) \/ NoUserData(p)) =>
               \A kind \in EntityTypes :
                   res[p][kind] # NoResult => res[p][kind].synced = 0

\* API.<kind>.sync resolved on a device whose storage fails: the UPDATE of
\* markOperationSynced works for the operations in `marked` only and the
\* function swallows the error of the others; then either every snapshot in
\* `snapshots` is applied and the reconciler returns success, or the UPDATE
\* of the snapshot after them throws and the catch block returns the failure
syncResponseStorageFails(p, kind, marked, snapshots, thrown) ==
    /\ pc[p] = kind \o "_call"
    /\ marked \subseteq IdSet(sent[p][kind])
    /\ thrown \/ marked # IdSet(sent[p][kind])
    /\ sync_queue' = MarkAll(sync_queue, SelectSeq(sent[p][kind], LAMBDA i : i \in marked))
    /\ rowSynced' = [rowSynced EXCEPT ![kind] =
                        [e \in EntityIds |-> IF e \in snapshots THEN TRUE ELSE @[e]]]
    /\ EnterNext(p, kind, IF thrown THEN [success |-> FALSE, synced |-> 0]
                                    ELSE [success |-> TRUE, synced |-> Len(sent[p][kind])])
    /\ UNCHANGED <<calls, bills, catalog, sync_history, last_sync_time, appended,
                   netw, sched, caller, entry, hist, screen, numbering>>

\* a device online throughout whose local storage may fail under a
\* reconciler, with passes one at a time
NextStorage ==
    \/ CreateBill
    \/ \E o \in OpMenu, e \in EntityIds, now \in Nows : queueOperation(o[1], o[2], e, now)
    \/ queueOperationSchedule
    \/ \E p \in Solo :
        \/ EnqueueTimer(p)
        \/ PassStep(p, {clock})
        \/ \E kind \in RowKinds, marked \in SUBSET (DOMAIN sync_queue),
              snapshots \in SUBSET EntityIds, thrown \in BOOLEAN :
               syncResponseStorageFails(p, kind, marked, snapshots, thrown)

SpecStorage == Init /\ [][NextStorage]_vars

\* C23: per kind, marking is all-or-nothing: a syncCategories or syncItems
\* call that returns {success: false, synced: 0} marked no operation, also
\* when it fails while applying a returned snapshot.
C23_Step ==
    \A p \in Passes, kind \in RowKinds :
        Failed(p, kind) =>
            \A i \in IdSet(sent[p][kind]) : sync_queue'[i].synced = sync_queue[i].synced

C23_AllOrNothing == [][C23_Step]_vars

\* C24: a storage failure while marking is not hidden in a success: the count
\* a reconciler returns with success is the number of operations whose synced
\* flag its pass changed from 0 to 1.
C24_Step ==
    \A p \in Passes, kind \in RowKinds :
        Succeeded(p, kind) => res'[p][kind].synced = Cardinality(NewlySynced)

C24_CountIsMarked == [][C24_Step]_vars

\* the caller of queueOperation (the category and item stores) writes the
\* local row before it enqueues the operation: the row is not synced
EditRow(kind, entity_id) ==
    /\ rowSynced[kind][entity_id]
    /\ rowSynced' = [rowSynced EXCEPT ![kind][entity_id] = FALSE]
    /\ UNCHANGED <<calls, sync_queue, bills, catalog, sync_history, last_sync_time, appended,
                   netw, sched, pass, screen, numbering>>

\* the steps of a syncAll pass that found the device online and has no bills
\* to send, against a remote that accepts every batch and returns snapshots;
\* the steps of an initialSync
MixedStep(p) ==
    \/ syncAllOnline(p)
    \/ \E kind \in RowKinds, snapshots \in SUBSET EntityIds : syncResponse(p, kind, snapshots)
    \/ syncBillsRead(p, clock)
    \/ saveSyncToHistoryGet(p)
    \/ saveSyncToHistorySet(p)
    \/ syncAllLastSync(p, clock)
    \/ Return(p)
    \/ initialSyncOffline(p)
    \/ initialSyncOnline(p, clock)
    \/ \E downloaded \in RemoteCategories : initialSyncCategories(p, downloaded)
    \/ \E downloaded \in RemoteItems : initialSyncItems(p, downloaded, clock)
    \/ initialSyncFailure(p)
    \/ initialSyncLastSync(p)
    \/ initialSyncReturn(p)

\* a device on which rows are edited and enqueued while syncAll passes and
\* initialSync calls run; a pass overlaps another pass or an initialSync
NextMixed ==
    \/ \E kind \in RowKinds, e \in EntityIds : EditRow(kind, e)
    \/ \E o \in OpMenu, e \in EntityIds :
           ~rowSynced[o[2]][e] /\ queueOperation(o[1], o[2], e, clock)
    \/ queueOperationSchedule
    \/ \E p \in Passes :
        \/ EnqueueTimer(p)
        \/ (\A q \in Passes : trig[q] # "initial") /\ initialSync(p)
        \/ MixedStep(p)

SpecMixed == Init /\ [][NextMixed]_vars

\* C25: every stored history record reflects at least one synced or
\* downloaded entity: none has an empty item list, whatever sequence of
\* syncAll and initialSync calls ran.
C25_NoEmptyRecord ==
    \A n \in DOMAIN sync_history : sync_history[n].items # <<>>

\* the queue holds a pending operation for the row
PendingForRow(kind, entity_id) ==
    \E i \in DOMAIN sync_queue :
        /\ sync_queue[i].entity_type = kind
        /\ sync_queue[i].entity_id = entity_id
        /\ sync_queue[i].synced = 0

\* C26: a category or item row is flagged is_synced = 1 only while the queue
\* holds no pending operation for it.
C26_SyncedRowHasNoPending ==
    \A kind \in RowKinds, e \in EntityIds :
        rowSynced[kind][e] => ~PendingForRow(kind, e)

\* no saveSyncToHistory call is between its start and its setItem
NoSaveInProgress == \A p \in Passes : pc[p] \notin {"hist_get", "hist_set"}

\* C28: no history append is lost: once the saveSyncToHistory calls have
\* completed, every record handed to one is in the stored history, as long
\* as fewer than 20 records exist.
C28_NoAppendLost ==
    (NoSaveInProgress /\ Len(appended) < HistoryLimit) =>
        Len(sync_history) = Len(appended)

\* the numbers of bills a device saves between two syncs
Sales == {1, BillLimit, MaxSales}

\* n bills are saved locally on a device that had none, each with
\* is_synced = 0
CreateBills(n) ==
    /\ bills = <<>>
    /\ n <= MaxSales
    /\ bills' = bills \o [b \in 1 .. n |-> FALSE]
    /\ UNCHANGED <<calls, sync_queue, rowSynced, catalog, sync_history, last_sync_time, appended,
                   netw, sched, pass, screen, numbering>>

\* the steps of a syncAll pass with nothing in the queue: only syncBills has
\* work
BillsStep(p) ==
    \/ syncAllOffline(p)
    \/ syncAllOnline(p)
    \/ syncBillsRead(p, clock)
    \/ syncBillsResponse(p, clock)
    \/ syncBillsFailure(p)
    \/ saveSyncToHistoryGet(p)
    \/ saveSyncToHistorySet(p)
    \/ syncAllLastSync(p, clock)
    \/ Return(p)
    \/ \E now \in Nows : handleBackupNowResult(p, now)

\* a device that saves bills while no sync runs and whose connectivity
\* changes; passes, one at a time, are started by 'Backup Now' and by the
\* listener's timer
NextBills ==
    \/ \E n \in Sales : (\A p \in Passes : pc[p] = "idle") /\ CreateBills(n)
    \/ \E state \in NetStates : NetworkListener(state) /\ recTimers' <= MaxTimers
    \/ loadBackupData
    \/ \E p \in Solo :
        \/ handleBackupNow(p)
        \/ ReconnectTimer(p)
        \/ BillsStep(p)

SpecBills == Init /\ [][NextBills]_vars

\* C27: when syncAll returns success = true, every bill that was unsynced at
\* the start of the pass is marked synced, however many there were (no bill
\* is saved while a pass runs, so a bill unsynced at the return was unsynced
\* at the start).
C27_SuccessLeavesNoBill ==
    \A p \in Passes :
        (pc[p] = "done" /\ Result(p).success) => \A b \in DOMAIN bills : bills[b]

\* ---------------------------------------------------------- billNumbering
\* "Default settings if none exist"; a startingNumber is the string of its
\* decimal digits
DefaultSettings ==
    [prefix |-> "INV-", startingNumber |-> <<1, 0, 0, 1>>, includeDate |-> TRUE,
     currentNumber |-> 1001]

\* the BillNumberingSettings the settings screen stores; currentNumber is
\* optional
SettingsMenu ==
    {[prefix |-> "INV-", startingNumber |-> <<7>>, includeDate |-> TRUE,
      currentNumber |-> NoNumber],
     [prefix |-> "B", startingNumber |-> <<0>>, includeDate |-> FALSE,
      currentNumber |-> 0],
     [prefix |-> "B", startingNumber |-> <<1, 0>>, includeDate |-> FALSE,
      currentNumber |-> 12]}

\* parseInt(string, 10) of a string of decimal digits
RECURSIVE parseInt(_)
parseInt(string) ==
    IF string = <<>> THEN 0
    ELSE 10 * parseInt(SubSeq(string, 1, Len(string) - 1)) + string[Len(string)]

\* settings.currentNumber || parseInt(settings.startingNumber, 10): undefined
\* and 0 are falsy
CurrentNumber(settings) ==
    IF settings.currentNumber = NoNumber \/ settings.currentNumber = 0
    THEN parseInt(settings.startingNumber)
    ELSE settings.currentNumber

\* generateBillNumber on the day `day`: the parts of the template string
generateBillNumberOn(prefix, number, includeDate, day) ==
    IF includeDate THEN <<prefix, day, "-", number>> ELSE <<prefix, number>>

\* generateBillNumber: today = new Date()
generateBillNumber(prefix, number, includeDate) ==
    generateBillNumberOn(prefix, number, includeDate, today)

\* settingsJson ? JSON.parse(settingsJson) : the default settings
Parsed(settingsJson) ==
    IF settingsJson = NoSettings THEN DefaultSettings ELSE settingsJson

\* a counter that skips a number
Incremented_Twice(settings, currentNumber) ==
    [settings EXCEPT !.currentNumber = currentNumber + 2]

\* settings.currentNumber = currentNumber + 1
Incremented(settings, currentNumber) ==
    [settings EXCEPT !.currentNumber = currentNumber + 1]

\* midnight passes
NextDay ==
    /\ today < MaxDay
    /\ today' = today + 1
    /\ UNCHANGED <<store, netw, sched, calls, pass, screen, bill_numbering, numPc,
                   numLocal, numLog>>

\* the settings screen stores new settings
SaveSettings(settings) ==
    /\ Len(numLog) < MaxNumbered
    /\ \A c \in NumberCalls : numPc[c] = "idle"
    /\ bill_numbering' = settings
    /\ numLog' = Append(numLog, [op |-> "save", result |-> <<>>, number |-> NoNumber,
                                  day |-> today, before |-> bill_numbering,
                                  after |-> settings])
    /\ UNCHANGED <<store, netw, sched, calls, pass, screen, today, numPc, numLocal>>

\* a call of getNextBillNumber(): runs to its await of getItem
getNextBillNumber(c) ==
    /\ numPc[c] = "idle"
    /\ Len(numLog) + Cardinality({d \in NumberCalls : numPc[d] # "idle"}) < MaxNumbered
    /\ numPc' = [numPc EXCEPT ![c] = "next_get"]
    /\ UNCHANGED <<store, netw, sched, calls, pass, screen, bill_numbering, today,
                   numLocal, numLog>>

\* getNextBillNumber after getItem resolved: build the number, increment the
\* counter, up to the await of setItem
getNextBillNumberGet(c) ==
    /\ numPc[c] = "next_get"
    /\ LET settings == Parsed(bill_numbering)
           currentNumber == CurrentNumber(settings)
       IN numLocal' = [numLocal EXCEPT ![c] =
              [settings |-> Incremented(settings, currentNumber),
               billNumber |-> generateBillNumber(settings.prefix, currentNumber,
                                                 settings.includeDate),
               number |-> currentNumber,
               day |-> today]]
    /\ numPc' = [numPc EXCEPT ![c] = "next_set"]
    /\ UNCHANGED <<store, netw, sched, calls, pass, screen, bill_numbering, today, numLog>>

\* getNextBillNumber: setItem stored the settings; return billNumber
getNextBillNumberSet(c) ==
    /\ numPc[c] = "next_set"
    /\ bill_numbering' = numLocal[c].settings
    /\ numLog' = Append(numLog, [op |-> "next", result |-> numLocal[c].billNumber,
                                  number |-> numLocal[c].number, day |-> numLocal[c].day,
                                  before |-> bill_numbering,
                                  after |-> numLocal[c].settings])
    /\ numPc' = [numPc EXCEPT ![c] = "idle"]
    /\ numLocal' = [numLocal EXCEPT ![c] = NoLocal]
    /\ UNCHANGED <<store, netw, sched, calls, pass, screen, today>>

\* a call of previewBillNumber(): runs to its await of getItem
previewBillNumber(c) ==
    /\ numPc[c] = "idle"
    /\ Len(numLog) + Cardinality({d \in NumberCalls : numPc[d] # "idle"}) < MaxNumbered
    /\ numPc' = [numPc EXCEPT ![c] = "preview_get"]
    /\ UNCHANGED <<store, netw, sched, calls, pass, screen, bill_numbering, today,
                   numLocal, numLog>>

\* previewBillNumber after getItem resolved: build the number and return it
previewBillNumberGet(c) ==
    /\ numPc[c] = "preview_get"
    /\ LET settings == Parsed(bill_numbering)
           currentNumber == CurrentNumber(settings)
       IN numLog' = Append(numLog,
              [op |-> "preview",
               result |-> generateBillNumber(settings.prefix, currentNumber,
                                             settings.includeDate),
               number |-> currentNumber, day |-> today,
               before |-> bill_numbering, after |-> bill_numbering])
    /\ numPc' = [numPc EXCEPT ![c] = "idle"]
    /\ UNCHANGED <<store, netw, sched, calls, pass, screen, bill_numbering, today, numLocal>>

\* the steps of the bill numbering calls
NumberStep(c) ==
    \/ getNextBillNumber(c)
    \/ getNextBillNumberGet(c)
    \/ getNextBillNumberSet(c)
    \/ previewBillNumber(c)
    \/ previewBillNumberGet(c)

\* the slot of calls made one after the other
SoloCall == {1}

\* bill numbers asked for one call at a time, between changes of the
\* settings and of the day
NextNumbering ==
    \/ NextDay
    \/ \E settings \in SettingsMenu : SaveSettings(settings)
    \/ \E c \in SoloCall : NumberStep(c)

SpecNumbering == Init /\ [][NextNumbering]_vars

\* bill numbers asked for by calls that overlap, the settings left alone
NextNumberRace ==
    \/ NextDay
    \/ \E c \in NumberCalls : NumberStep(c)

SpecNumberRace == Init /\ [][NextNumberRace]_vars

\* the counter the stored settings hold: currentNumber, else the starting
\* number, else the default's
StoredCounter(stored) ==
    IF stored = NoSettings THEN 1001
    ELSE IF stored.currentNumber # NoNumber THEN stored.currentNumber
    ELSE parseInt(stored.startingNumber)

\* the number the stored settings yield on the day
NumberOf(stored, day) ==
    LET settings == Parsed(stored)
    IN generateBillNumberOn(settings.prefix, StoredCounter(stored), settings.includeDate, day)

\* a getNextBillNumber call returned the number built from the stored counter
\* and advanced the stored counter by one
NextIsRight(call) ==
    /\ call.result = NumberOf(call.before, call.day)
    /\ call.after = [Parsed(call.before) EXCEPT !.currentNumber = StoredCounter(call.before) + 1]
    /\ StoredCounter(call.after) = StoredCounter(call.before) + 1

\* a previewBillNumber call returned that number and stored nothing
PreviewIsRight(call) ==
    /\ call.result = NumberOf(call.before, call.day)
    /\ call.after = call.before

\* the calls that follow a previewBillNumber call directly
AfterPreview == {i \in DOMAIN numLog : i > 1 /\ numLog[i].op = "next" /\ numLog[i - 1].op = "preview"}

\* C29 as stated: in a sequential run each getNextBillNumber returns the
\* number built from the stored counter and advances it by one, and
\* previewBillNumber stores nothing and returns the number the next
\* getNextBillNumber returns.
C29_PreviewIsNext ==
    /\ \A i \in DOMAIN numLog :
           /\ numLog[i].op = "next" => NextIsRight(numLog[i])
           /\ numLog[i].op = "preview" => PreviewIsRight(numLog[i])
    /\ \A i \in AfterPreview : numLog[i].result = numLog[i - 1].result

\* C29 amended: the preview is the number the next getNextBillNumber returns
\* when both run on the same calendar day or the number carries no date.
C29_PreviewIsNextSameDay ==
    /\ \A i \in DOMAIN numLog :
           /\ numLog[i].op = "next" => NextIsRight(numLog[i])
           /\ numLog[i].op = "preview" => PreviewIsRight(numLog[i])
    /\ \A i \in AfterPreview :
           (numLog[i].day = numLog[i - 1].day \/ ~Parsed(numLog[i].before).includeDate)
               => numLog[i].result = numLog[i - 1].result

\* C29 happens: a number was issued, then previewed and issued again on one
\* day, the preview being the second number
C29_Witness ==
    /\ Len(numLog) = 3
    /\ numLog[1].op = "next" /\ numLog[2].op = "preview" /\ numLog[3].op = "next"
    /\ numLog[2].day = numLog[3].day
    /\ Parsed(numLog[3].before).includeDate
    /\ numLog[3].result = numLog[2].result
    /\ numLog[3].number = numLog[1].number + 1

\* C30: no two getNextBillNumber calls return the same counter value, also
\* when they overlap.
C30_UniqueNumbers ==
    \A i, j \in DOMAIN numLog :
        (i < j /\ numLog[i].op = "next" /\ numLog[j].op = "next")
            => numLog[i].number # numLog[j].number

====
